---- MODULE Spec2Model ----
(***************************************************************************)
(* Model of the signal-chain engine (src/src/audio/engine.ts) and of the   *)
(* stage registry (src/src/audio/stages.ts).                               *)
(*                                                                         *)
(* Representation                                                          *)
(*  - a stage id `${kind}-${suffix}` is the pair <<kind, n>>: n = 0 is the *)
(*    literal suffix "stage" of the three built-in ids, n >= 1 is the n-th *)
(*    value drawn from crypto.randomUUID();                                *)
(*  - parameter values are integers in hundredths (gain 1.0 is 100);       *)
(*  - an audio node is a record [role, id, n]; an engine field that is     *)
(*    null in the code holds 0 here (node and stream numbers start at 1);  *)
(*  - connections is the set of WebAudio connections <<from, to>>;         *)
(*    node.disconnect() removes every connection leaving the node.         *)
(***************************************************************************)
EXTENDS Integers, Sequences, FiniteSets, TLC

VARIABLES
    ctx,             \* this.ctx / analyser / masterGain exist (init() ran)
    state,           \* this.state : EngineState
    oscillator,      \* this.oscillator : number of the node, 0 = null
    oscParams,       \* type and frequency.value of this.oscillator
    oscStarted,      \* oscillator nodes started and not stopped
    micStream,       \* this.micStream : number of the stream, 0 = null
    micSource,       \* this.micSource : number of the node, 0 = null
    liveStreams,     \* acquired streams whose tracks were not stopped
    pending,         \* enableMicrophone calls awaiting getUserMedia
    stageInstances,  \* this.stageInstances : id -> StageInstance
    connections,     \* the audio graph's connections
    createCount,     \* id -> number of createInstance calls
    disposeCount,    \* id -> number of dispose() calls
    uuidSeq,         \* number of ids addStage drew from crypto.randomUUID()
    issued,          \* the ids addStage returned so far
    emits,           \* snapshots emitted by the last command, in order
    lastSnapshot,    \* <<the last snapshot emitted>>, <<>> before the first
    subscribers,     \* this.subscribers : the handlers, in insertion order
    received,        \* handler -> <<the last snapshot it was called with>>
    held,            \* <<a snapshot a caller keeps>>, <<>> when none is kept
    probe,           \* what the last command did out of order
    worklet,         \* one AudioWorklet processor, on the audio thread
    call             \* the last command: its name, its id or source argument,
                     \* its result, and the source and returned id before it

vars == <<ctx, state, oscillator, oscParams, oscStarted, micStream, micSource,
          liveStreams, pending, stageInstances, connections, createCount,
          disposeCount, uuidSeq, issued, emits, lastSnapshot, subscribers,
          received, held, probe, worklet, call>>

(***************************************************************************)
(* Bounds of the model and the inputs the commands are called with.        *)
(***************************************************************************)
MaxAdded == 1
MaxStreams == 2
MaxInits == 2

StageKinds == {"gain", "pan", "delay", "wasm-gain", "uiua-gain"}
UnknownKinds == {"reverb"}
AddKinds == {"delay", "wasm-gain"}
LifeKinds == {"delay"}
Waveforms == {"sine", "square"}
WorkletKinds == {"wasm-gain", "uiua-gain", "uiua-worklet"}
WorkletGains == {50, 150, 250}
Freqs == {440, 3000}
SourceTypes == {"oscillator", "microphone"}
Directions == {"up", "down"}

NoId == <<"none", 0>>
StaleId == <<"gain", MaxAdded + 1>>
InitialIds == {<<"gain", 0>>, <<"pan", 0>>, <<"delay", 0>>}
MaxDraws == MaxAdded + 1
AllIds == InitialIds \cup ((StageKinds \cup UnknownKinds) \X (1..MaxDraws))

(***************************************************************************)
(* stages.ts : the registry.                                               *)
(***************************************************************************)
Min(a, b) == IF a < b THEN a ELSE b
Max(a, b) == IF a > b THEN a ELSE b

clamp(value, lo, hi) == Min(Max(value, lo), hi)

ParamMin(kind) ==
    CASE kind = "pan" -> [pan |-> -100]
      [] kind = "delay" -> [time |-> 0, wet |-> 0, feedback |-> 0]
      [] OTHER -> [gain |-> 0]

ParamMax(kind) ==
    CASE kind = "pan" -> [pan |-> 100]
      [] kind = "delay" -> [time |-> 200, wet |-> 100, feedback |-> 95]
      [] OTHER -> [gain |-> 200]

\* What a call that throws yields in place of its value.
TypeError == [error |-> "TypeError"]

Throws(value) == "error" \in DOMAIN value

\* Variant: a kind the registry lacks gets the parameters of a gain.
getDefaultParams_Fallback(kind) ==
    CASE kind = "pan" -> [pan |-> 0]
      [] kind = "delay" -> [time |-> 40, wet |-> 50, feedback |-> 40]
      [] OTHER -> [gain |-> 100]

\* For a kind the registry lacks, STAGE_REGISTRY[kind] is undefined and
\* reading def.params throws.
getDefaultParams(kind) ==
    CASE kind = "pan" -> [pan |-> 0]
      [] kind = "delay" -> [time |-> 40, wet |-> 50, feedback |-> 40]
      [] kind \in {"gain", "wasm-gain", "uiua-gain"} -> [gain |-> 100]
      [] OTHER -> TypeError

\* The nodes of an instance.  Simple stages are one node that is both input
\* and output; a delay is six nodes.
Node(role, id, n) == [role |-> role, id |-> id, n |-> n]

OscNode(n) == Node("oscillator", <<"source", 0>>, n)
MicNode(n) == Node("micSource", <<"source", 0>>, n)
MasterGain == Node("masterGain", <<"sink", 0>>, 0)
Analyser == Node("analyser", <<"sink", 0>>, 0)
Destination == Node("destination", <<"sink", 0>>, 0)

DelayRoles == {"input", "output", "delay", "wetGain", "dryGain", "feedbackGain"}

InstanceNodes(id, inst) ==
    IF inst.kind = "delay"
    THEN {Node(r, id, inst.gen) : r \in DelayRoles}
    ELSE {Node(inst.kind, id, inst.gen)}

InputNode(id, inst) ==
    IF inst.kind = "delay" THEN Node("input", id, inst.gen)
    ELSE Node(inst.kind, id, inst.gen)

OutputNode(id, inst) ==
    IF inst.kind = "delay" THEN Node("output", id, inst.gen)
    ELSE Node(inst.kind, id, inst.gen)

\* The connections createInstance makes inside a delay (stages.ts 159-170).
InternalWiring(id, inst) ==
    IF inst.kind = "delay"
    THEN LET N(r) == Node(r, id, inst.gen)
         IN {<<N("input"), N("dryGain")>>, <<N("dryGain"), N("output")>>,
             <<N("input"), N("delay")>>, <<N("delay"), N("wetGain")>>,
             <<N("wetGain"), N("output")>>,
             <<N("delay"), N("feedbackGain")>>, <<N("feedbackGain"), N("delay")>>}
    ELSE {}

Disconnect(conns, node) == {e \in conns : e[1] # node}

DisconnectAll(conns, nodes) == {e \in conns : e[1] \notin nodes}

\* createInstance: the live values are set from the params as given.
createInstance(kind, gen, params) ==
    [kind |-> kind,
     gen |-> gen,
     live |-> IF kind = "delay"
              THEN [time |-> params.time, wet |-> params.wet,
                    dry |-> 100 - params.wet, feedback |-> params.feedback]
              ELSE IF kind = "pan" THEN [pan |-> params.pan]
              ELSE [gain |-> params.gain],
     updated |-> FALSE,
     lastUpdate |-> params]

\* instance.update(p): each known key that is present is clamped and applied.
Has(p, k) == k \in DOMAIN p

\* Variant: the dry gain is left as it was when wet changes.
UpdateDelay_KeepDry(live, p) ==
    [time |-> IF Has(p, "time") THEN clamp(p.time, 0, 200) ELSE live.time,
     wet |-> IF Has(p, "wet") THEN clamp(p.wet, 0, 100) ELSE live.wet,
     dry |-> live.dry,
     feedback |-> IF Has(p, "feedback") THEN clamp(p.feedback, 0, 95)
                  ELSE live.feedback]

\* update of a delay instance: stages.ts lines 174-187.
UpdateDelay(live, p) ==
    [time |-> IF Has(p, "time") THEN clamp(p.time, 0, 200) ELSE live.time,
     wet |-> IF Has(p, "wet") THEN clamp(p.wet, 0, 100) ELSE live.wet,
     dry |-> IF Has(p, "wet") THEN 100 - clamp(p.wet, 0, 100) ELSE live.dry,
     feedback |-> IF Has(p, "feedback") THEN clamp(p.feedback, 0, 95)
                  ELSE live.feedback]

\* Variant: the values are applied as given.
UpdateLive_NoClamp(kind, live, p) ==
    IF kind = "delay"
    THEN [time |-> IF Has(p, "time") THEN p.time ELSE live.time,
          wet |-> IF Has(p, "wet") THEN p.wet ELSE live.wet,
          dry |-> IF Has(p, "wet") THEN 100 - p.wet ELSE live.dry,
          feedback |-> IF Has(p, "feedback") THEN p.feedback ELSE live.feedback]
    ELSE IF kind = "pan"
    THEN [pan |-> IF Has(p, "pan") THEN p.pan ELSE live.pan]
    ELSE [gain |-> IF Has(p, "gain") THEN p.gain ELSE live.gain]

UpdateLive(kind, live, p) ==
    IF kind = "delay"
    THEN UpdateDelay(live, p)
    ELSE IF kind = "pan"
    THEN [pan |-> IF Has(p, "pan") THEN clamp(p.pan, -100, 100) ELSE live.pan]
    ELSE [gain |-> IF Has(p, "gain") THEN clamp(p.gain, 0, 200) ELSE live.gain]

update(inst, p) ==
    [inst EXCEPT !.live = UpdateLive(inst.kind, inst.live, p),
                 !.updated = TRUE,
                 !.lastUpdate = p]

(***************************************************************************)
(* engine.ts : the private helpers.  They are functions of the engine's    *)
(* fields, gathered in a record e; a command's action assigns the fields   *)
(* of the result to the variables.                                         *)
(***************************************************************************)
\* The block a processor has not processed yet, and no processor at all.
NoBlock == [ready |-> FALSE, threw |-> FALSE, output |-> "none", result |-> "none"]

NoWorklet ==
    [kind |-> "none", gain |-> 0, processor |-> FALSE, wasmGain |-> <<>>,
     wasmInitialized |-> FALSE,
     awaiting |-> 0, completed |-> FALSE, lastSet |-> 0, block |-> NoBlock]

NoProbe == [nested |-> FALSE, late |-> FALSE]

Engine ==
    [ctx |-> ctx, state |-> state, oscillator |-> oscillator,
     oscParams |-> oscParams, oscStarted |-> oscStarted,
     micStream |-> micStream, micSource |-> micSource,
     stageInstances |-> stageInstances, connections |-> connections,
     createCount |-> createCount, disposeCount |-> disposeCount,
     emits |-> <<>>, subscribers |-> subscribers, received |-> received,
     depth |-> 0, probe |-> NoProbe,
     start |-> <<connections, oscillator, micSource, micStream>>]

NoOscParams == [type |-> "sine", frequency |-> 0]

\* A node number no live node carries: object identity of a new node.
Endpoints(conns) == {c[1] : c \in conns} \cup {c[2] : c \in conns}

FreshOsc(e) ==
    LET used == e.oscStarted \cup
                {n \in 1..(Cardinality(e.connections) + 1) :
                    OscNode(n) \in Endpoints(e.connections)}
    IN CHOOSE n \in 1..(Cardinality(used) + 1) :
           n \notin used /\ \A m \in 1..(n - 1) : m \in used

FreshMic(e) ==
    LET used == {n \in 1..(Cardinality(e.connections) + 2) :
                    n = e.micSource \/ MicNode(n) \in Endpoints(e.connections)}
    IN CHOOSE n \in 1..(Cardinality(used) + 1) :
           n \notin used /\ \A m \in 1..(n - 1) : m \in used

\* Variant: the snapshot's stages carry the engine's own params objects.
cloneState_SharedParams(e) ==
    [source |-> e.state.source,
     oscillator |-> e.state.oscillator,
     mic |-> e.state.mic,
     stages |-> e.state.stages,
     shared |-> {"params"}]

\* cloneState(): lines 271-283.  The result is a new object literal whose
\* oscillator and mic are spread copies and whose stages is a mapped array
\* of new stage literals with spread params: shared, the set of the parts
\* of the snapshot that are the engine's own objects, is empty.
cloneState(e) ==
    [source |-> e.state.source,
     oscillator |-> [running |-> e.state.oscillator.running,
                     type |-> e.state.oscillator.type,
                     frequency |-> e.state.oscillator.frequency],
     mic |-> [enabled |-> e.state.mic.enabled],
     stages |-> [i \in 1..Len(e.state.stages) |->
                    [id |-> e.state.stages[i].id,
                     kind |-> e.state.stages[i].kind,
                     bypassed |-> e.state.stages[i].bypassed,
                     params |-> e.state.stages[i].params]],
     shared |-> {}]

\* The live graph a command starts from is e.start.
GraphOf(e) == <<e.connections, e.oscillator, e.micSource, e.micStream>>

\* The parts of a snapshot a caller can write to.
Parts == {"source", "oscillator", "mic", "stages", "stage", "params"}

\* One write to a part of an object of the shape of EngineState.
Write(st, part) ==
    CASE part = "source" ->
           [st EXCEPT !.source = IF @ = "oscillator" THEN "microphone" ELSE "oscillator"]
      [] part = "oscillator" -> [st EXCEPT !.oscillator.running = ~@]
      [] part = "mic" -> [st EXCEPT !.mic.enabled = ~@]
      [] part = "stages" -> [st EXCEPT !.stages = Tail(@)]
      [] part = "stage" -> [st EXCEPT !.stages[1].bypassed = ~@]
      [] part = "params" ->
           [st EXCEPT !.stages[1].params = [k \in DOMAIN @ |-> 0]]

\* The handlers a caller subscribes.  "meter" only keeps what it is given;
\* "normalizer" answers a snapshot whose waveform is square by calling
\* engine.setType('sine') from inside the notification; "scrubber" writes
\* to the oscillator of the snapshot it is given.
Handlers == {"meter", "normalizer", "scrubber"}

\* The snapshot object after handler h ran on it.
Handled(h, snapshot) ==
    IF h = "scrubber" THEN Write(snapshot, "oscillator") ELSE snapshot

Reacts(h, snapshot) == h = "normalizer" /\ snapshot.oscillator.type = "square"

RECURSIVE updateState(_, _)

\* handler(snapshot): the handler keeps the snapshot and may call the engine.
Notify(e, h, snapshot) ==
    LET e1 == [e EXCEPT !.received[h] = <<snapshot>>]
    IN IF Reacts(h, snapshot)
       THEN updateState(e1, [e1.state EXCEPT !.oscillator.type = "sine"])
       ELSE e1

\* sub(snapshot) for the subscribers from the i-th on: line 268.  The one
\* snapshot object goes from handler to handler.
RECURSIVE Deliver(_, _, _)
Deliver(e, i, snapshot) ==
    IF i > Len(e.subscribers) THEN e
    ELSE Deliver(Notify(e, e.subscribers[i], snapshot), i + 1,
                 Handled(e.subscribers[i], snapshot))

\* emitState(): lines 264-269.  probe.late records that the command's first
\* snapshot was emitted after the command had changed the live graph.
emitState(e) ==
    LET snapshot == cloneState(e)
    IN Deliver([e EXCEPT !.emits = Append(@, snapshot),
                          !.probe.late = @ \/ (e.emits = <<>> /\ GraphOf(e) # e.start)],
               1, snapshot)

\* A command is entered and left; probe.nested records that it was entered
\* while another command's emission or rebuild was in progress.
Begin(e) == [e EXCEPT !.depth = @ + 1, !.probe.nested = @ \/ e.depth > 0]

End(e) == [e EXCEPT !.depth = @ - 1]

\* Variant: type and frequency are set only when the node is created.
syncOscillatorNode_CreateOnly(e) ==
    IF ~e.ctx THEN e
    ELSE IF e.state.oscillator.running
    THEN IF e.oscillator = 0
         THEN [e EXCEPT !.oscillator = FreshOsc(e),
                        !.oscStarted = @ \cup {FreshOsc(e)},
                        !.oscParams = [type |-> e.state.oscillator.type,
                                       frequency |-> e.state.oscillator.frequency]]
         ELSE e
    ELSE IF e.oscillator # 0
    THEN [e EXCEPT !.oscStarted = @ \ {e.oscillator},
                   !.connections = Disconnect(@, OscNode(e.oscillator)),
                   !.oscillator = 0,
                   !.oscParams = NoOscParams]
    ELSE e

syncOscillatorNode(e) ==
    IF ~e.ctx THEN e
    ELSE IF e.state.oscillator.running
    THEN LET c == IF e.oscillator = 0
                  THEN [e EXCEPT !.oscillator = FreshOsc(e),
                                 !.oscStarted = @ \cup {FreshOsc(e)}]
                  ELSE e
         IN [c EXCEPT !.oscParams = [type |-> e.state.oscillator.type,
                                     frequency |-> e.state.oscillator.frequency]]
    ELSE IF e.oscillator # 0
    THEN [e EXCEPT !.oscStarted = @ \ {e.oscillator},
                   !.connections = Disconnect(@, OscNode(e.oscillator)),
                   !.oscillator = 0,
                   !.oscParams = NoOscParams]
    ELSE e

syncMicSource(e) ==
    IF ~e.ctx \/ ~e.state.mic.enabled \/ e.micSource # 0 \/ e.micStream = 0
    THEN e
    ELSE [e EXCEPT !.micSource = FreshMic(e)]

createStageInstance(e, stage) ==
    createInstance(stage.kind, e.createCount[stage.id] + 1, stage.params)

\* Variant: an instance is created on every rebuild, over the one in the table.
ensureStageInstance_Recreate(e, stage) ==
    LET created == createStageInstance(e, stage)
    IN [e EXCEPT !.stageInstances =
                     [i \in DOMAIN @ \cup {stage.id} |->
                         IF i = stage.id THEN created ELSE @[i]],
                 !.connections = @ \cup InternalWiring(stage.id, created),
                 !.createCount[stage.id] = @ + 1]

ensureStageInstance(e, stage) ==
    IF stage.id \in DOMAIN e.stageInstances THEN e
    ELSE LET created == createStageInstance(e, stage)
         IN [e EXCEPT !.stageInstances =
                          [i \in DOMAIN @ \cup {stage.id} |->
                              IF i = stage.id THEN created ELSE @[i]],
                      !.connections = @ \cup InternalWiring(stage.id, created),
                      !.createCount[stage.id] = @ + 1]

\* dispose(): disconnect() on every node of the instance.
dispose(e, id) ==
    [e EXCEPT !.connections =
                  DisconnectAll(@, InstanceNodes(id, e.stageInstances[id])),
              !.disposeCount[id] = @ + 1]

\* Variant: only an instance created by this pass is connected.
BuildStage_ConnectNew(e, stage, current) ==
    LET e1 == ensureStageInstance(e, stage)
        e2 == [e1 EXCEPT !.stageInstances[stage.id] = update(@, stage.params)]
        instance == e2.stageInstances[stage.id]
    IN IF ~stage.bypassed /\ stage.id \notin DOMAIN e.stageInstances
       THEN [e |-> [e2 EXCEPT !.connections =
                                  @ \cup {<<current, InputNode(stage.id, instance)>>}],
             current |-> OutputNode(stage.id, instance)]
       ELSE [e |-> e2, current |-> current]

\* Lines 336-345: one pass of the loop over state.stages; current is the tail.
BuildStage(e, stage, current) ==
    LET e1 == ensureStageInstance(e, stage)
        e2 == [e1 EXCEPT !.stageInstances[stage.id] = update(@, stage.params)]
        instance == e2.stageInstances[stage.id]
    IN IF ~stage.bypassed
       THEN [e |-> [e2 EXCEPT !.connections =
                                  @ \cup {<<current, InputNode(stage.id, instance)>>}],
             current |-> OutputNode(stage.id, instance)]
       ELSE [e |-> e2, current |-> current]

RECURSIVE BuildChain(_, _, _)
BuildChain(e, i, current) ==
    IF i > Len(e.state.stages) THEN [e |-> e, current |-> current]
    ELSE LET r == BuildStage(e, e.state.stages[i], current)
         IN BuildChain(r.e, i + 1, r.current)

\* Lines 347-353: every instance whose id is not in state.stages is disposed
\* and deleted.
RECURSIVE DisposeAll(_, _)
DisposeAll(e, ids) ==
    IF ids = {} THEN e
    ELSE LET id == CHOOSE i \in ids : TRUE
         IN DisposeAll(dispose(e, id), ids \ {id})

\* Variant: orphaned instances are deleted from the table without dispose().
GarbageCollect_Evict(e) ==
    LET activeIds == {e.state.stages[i].id : i \in 1..Len(e.state.stages)}
        orphans == DOMAIN e.stageInstances \ activeIds
    IN [e EXCEPT !.stageInstances = [i \in DOMAIN @ \ orphans |-> @[i]]]

GarbageCollect(e) ==
    LET activeIds == {e.state.stages[i].id : i \in 1..Len(e.state.stages)}
        orphans == DOMAIN e.stageInstances \ activeIds
        d == DisposeAll(e, orphans)
    IN [d EXCEPT !.stageInstances = [i \in DOMAIN @ \ orphans |-> @[i]]]

\* Variant: the entry node of every instance is disconnected as well.
DisconnectOutputs_Ends(e) ==
    LET outs == {OutputNode(id, e.stageInstances[id]) : id \in DOMAIN e.stageInstances}
               \cup {InputNode(id, e.stageInstances[id]) : id \in DOMAIN e.stageInstances}
               \cup (IF e.oscillator # 0 THEN {OscNode(e.oscillator)} ELSE {})
               \cup (IF e.micSource # 0 THEN {MicNode(e.micSource)} ELSE {})
    IN [e EXCEPT !.connections = DisconnectAll(@, outs)]

\* Lines 288-295.
DisconnectOutputs(e) ==
    LET outs == {OutputNode(id, e.stageInstances[id]) : id \in DOMAIN e.stageInstances}
               \cup (IF e.oscillator # 0 THEN {OscNode(e.oscillator)} ELSE {})
               \cup (IF e.micSource # 0 THEN {MicNode(e.micSource)} ELSE {})
    IN [e EXCEPT !.connections = DisconnectAll(@, outs)]

\* Lines 301-323: <<chosenSource, chosenType>>, chosenSource = "none" for null.
\* Variant: no fallback to the source that exists.
ChooseSource_NoFallback(e) ==
    LET src == e.state.source
    IN IF src = "microphone" /\ e.micSource # 0 THEN <<"microphone", src>>
       ELSE IF src = "oscillator" /\ e.oscillator # 0 THEN <<"oscillator", src>>
       ELSE <<"none", src>>

ChooseSource(e) ==
    LET src == e.state.source
    IN IF src = "microphone" /\ e.micSource # 0 THEN <<"microphone", src>>
       ELSE IF src = "oscillator" /\ e.oscillator # 0 THEN <<"oscillator", src>>
       ELSE IF src = "microphone" /\ e.micSource = 0 /\ e.oscillator # 0
       THEN <<"oscillator", "oscillator">>
       ELSE IF src = "oscillator" /\ e.oscillator = 0 /\ e.micSource # 0
       THEN <<"microphone", "microphone">>
       ELSE <<"none", src>>

SourceNode(e, which) ==
    IF which = "microphone" THEN MicNode(e.micSource) ELSE OscNode(e.oscillator)

\* Variant: the instances of bypassed stages are swept with the orphans.
rebuildSignalChain_SweepBypassed(e) ==
    IF ~e.ctx THEN e
    ELSE LET e1 == syncMicSource(syncOscillatorNode(DisconnectOutputs(e)))
             chosen == ChooseSource(e1)
             e2 == IF chosen[2] # e1.state.source
                   THEN emitState([e1 EXCEPT !.state.source = chosen[2]])
                   ELSE e1
         IN IF chosen[1] = "none" THEN e2
            ELSE LET b == BuildChain(e2, 1, SourceNode(e2, chosen[1]))
                     NotBypassed(stage) == ~stage.bypassed
                     g == GarbageCollect(
                              [b.e EXCEPT !.state.stages = SelectSeq(@, NotBypassed)])
                     e3 == [g EXCEPT !.state = b.e.state]
                 IN [e3 EXCEPT !.connections =
                         @ \cup {<<b.current, MasterGain>>, <<b.current, Analyser>>}]

rebuildSignalChain(e) ==
    IF ~e.ctx THEN e
    ELSE LET e1 == syncMicSource(syncOscillatorNode(DisconnectOutputs(e)))
             chosen == ChooseSource(e1)
             e2 == IF chosen[2] # e1.state.source
                   THEN emitState([e1 EXCEPT !.state.source = chosen[2]])
                   ELSE e1
         IN IF chosen[1] = "none" THEN e2
            ELSE LET b == BuildChain(e2, 1, SourceNode(e2, chosen[1]))
                     e3 == GarbageCollect(b.e)
                 IN [e3 EXCEPT !.connections =
                         @ \cup {<<b.current, MasterGain>>, <<b.current, Analyser>>}]

updateState(e, mutated) ==
    End(rebuildSignalChain(emitState([Begin(e) EXCEPT !.state = mutated])))

(***************************************************************************)
(* engine.ts : the commands.  Each action is one whole call (mutation,     *)
(* emission and rebuild); enableMicrophone is two: the call up to its      *)
(* await, and the continuation when getUserMedia settles.                  *)
(***************************************************************************)
StageIds(stages) == {stages[i].id : i \in 1..Len(stages)}

\* findIndex: the first index whose stage has the id, 0 for -1.
findIndex(stages, id) ==
    IF id \in StageIds(stages)
    THEN CHOOSE i \in 1..Len(stages) :
             stages[i].id = id /\ \A j \in 1..(i - 1) : stages[j].id # id
    ELSE 0

\* splice(index, 1) and splice(index, 0, stage), with 1-based positions.
RemoveAt(stages, i) ==
    [j \in 1..(Len(stages) - 1) |-> IF j < i THEN stages[j] ELSE stages[j + 1]]

InsertAt(stages, i, stage) ==
    [j \in 1..(Len(stages) + 1) |->
        IF j < i THEN stages[j] ELSE IF j = i THEN stage ELSE stages[j - 1]]

\* A command called without a params argument.
NoParams == [k \in {} |-> 0]

Call(op, id, arg, ok, retId) ==
    [op |-> op, id |-> id, arg |-> arg, params |-> NoParams, ok |-> ok,
     retId |-> retId, prevSource |-> state.source, prevRetId |-> call.retId]

\* The variables take the fields of e; the graph-side variables that no
\* helper touches are set by the action.
Commit(e) ==
    /\ ctx' = e.ctx
    /\ state' = e.state
    /\ oscillator' = e.oscillator
    /\ oscParams' = e.oscParams
    /\ oscStarted' = e.oscStarted
    /\ micStream' = e.micStream
    /\ micSource' = e.micSource
    /\ stageInstances' = e.stageInstances
    /\ connections' = e.connections
    /\ createCount' = e.createCount
    /\ disposeCount' = e.disposeCount
    /\ emits' = e.emits
    /\ subscribers' = e.subscribers
    /\ received' = e.received
    /\ probe' = e.probe
    /\ lastSnapshot' = IF e.emits = <<>> THEN lastSnapshot
                       ELSE <<e.emits[Len(e.emits)]>>

initialStages ==
    << [id |-> <<"gain", 0>>, kind |-> "gain", bypassed |-> TRUE,
        params |-> getDefaultParams("gain")],
       [id |-> <<"pan", 0>>, kind |-> "pan", bypassed |-> TRUE,
        params |-> getDefaultParams("pan")],
       [id |-> <<"delay", 0>>, kind |-> "delay", bypassed |-> TRUE,
        params |-> getDefaultParams("delay")] >>

Init ==
    /\ ctx = FALSE
    /\ state = [source |-> "oscillator",
                oscillator |-> [running |-> FALSE, type |-> "sine", frequency |-> 440],
                mic |-> [enabled |-> FALSE],
                stages |-> initialStages]
    /\ oscillator = 0
    /\ oscParams = NoOscParams
    /\ oscStarted = {}
    /\ micStream = 0
    /\ micSource = 0
    /\ liveStreams = {}
    /\ pending = 0
    /\ stageInstances = [i \in {} |-> 0]
    /\ connections = {}
    /\ createCount = [i \in AllIds |-> 0]
    /\ disposeCount = [i \in AllIds |-> 0]
    /\ uuidSeq = 0
    /\ issued = {}
    /\ emits = <<>>
    /\ lastSnapshot = <<>>
    /\ subscribers = <<>>
    /\ received = [h \in Handlers |-> <<>>]
    /\ held = <<>>
    /\ probe = NoProbe
    /\ worklet = NoWorklet
    /\ call = [op |-> "new", id |-> NoId, arg |-> "", params |-> NoParams,
               ok |-> TRUE, retId |-> NoId,
               prevSource |-> "oscillator", prevRetId |-> NoId]

\* init(): lines 67-81.
InitEngine ==
    /\ ~ctx
    /\ Commit(End(rebuildSignalChain(emitState(
           [Begin(Engine) EXCEPT !.ctx = TRUE,
                                 !.connections = @ \cup {<<MasterGain, Destination>>}]))))
    /\ call' = Call("init", NoId, "", TRUE, NoId)
    /\ UNCHANGED <<liveStreams, pending, uuidSeq, issued, held, worklet>>

\* Variant: the declared source is left as it was.
startOscillator_KeepSource ==
    /\ Commit(updateState(Engine, [state EXCEPT !.oscillator.running = TRUE]))
    /\ call' = Call("startOscillator", NoId, "", TRUE, NoId)
    /\ UNCHANGED <<liveStreams, pending, uuidSeq, issued, held, worklet>>

startOscillator ==
    /\ Commit(updateState(Engine, [state EXCEPT !.oscillator.running = TRUE,
                                                !.source = "oscillator"]))
    /\ call' = Call("startOscillator", NoId, "", TRUE, NoId)
    /\ UNCHANGED <<liveStreams, pending, uuidSeq, issued, held, worklet>>

stopOscillator ==
    /\ Commit(updateState(Engine, [state EXCEPT !.oscillator.running = FALSE]))
    /\ call' = Call("stopOscillator", NoId, "", TRUE, NoId)
    /\ UNCHANGED <<liveStreams, pending, uuidSeq, issued, held, worklet>>

setFrequency(freq) ==
    /\ Commit(updateState(Engine, [state EXCEPT !.oscillator.frequency = freq]))
    /\ call' = Call("setFrequency", NoId, "", TRUE, NoId)
    /\ UNCHANGED <<liveStreams, pending, uuidSeq, issued, held, worklet>>

setType(type) ==
    /\ Commit(updateState(Engine, [state EXCEPT !.oscillator.type = type]))
    /\ call' = Call("setType", NoId, "", TRUE, NoId)
    /\ UNCHANGED <<liveStreams, pending, uuidSeq, issued, held, worklet>>

MicOn(st) == [st EXCEPT !.mic.enabled = TRUE, !.source = "microphone"]

\* enableMicrophone up to its first suspension: lines 119-128.
enableMicrophone ==
    /\ call' = Call("enableMicrophone", NoId, "", TRUE, NoId)
    /\ \/ /\ ~ctx
          /\ Commit(Engine)
          /\ UNCHANGED <<liveStreams, pending, uuidSeq, issued, held, worklet>>
       \/ /\ ctx /\ micSource # 0
          /\ Commit(updateState(Engine, MicOn(state)))
          /\ UNCHANGED <<liveStreams, pending, uuidSeq, issued, held, worklet>>
       \/ /\ ctx /\ micSource = 0
          /\ pending + Cardinality(liveStreams) < MaxStreams
          /\ pending' = pending + 1
          /\ Commit(Engine)
          /\ UNCHANGED <<liveStreams, uuidSeq, issued, held, worklet>>

FreshStream ==
    CHOOSE n \in 1..(Cardinality(liveStreams) + 2) :
        /\ n \notin liveStreams /\ n # micStream
        /\ \A m \in 1..(n - 1) : m \in liveStreams \/ m = micStream

\* getUserMedia resolves: lines 128-134.
getUserMediaResolve ==
    /\ pending > 0
    /\ pending' = pending - 1
    /\ liveStreams' = liveStreams \cup {FreshStream}
    /\ Commit(updateState([Engine EXCEPT !.micStream = FreshStream,
                                         !.micSource = FreshMic(Engine)],
                          MicOn(state)))
    /\ call' = Call("enableMicrophone.resolved", NoId, "", TRUE, NoId)
    /\ UNCHANGED <<uuidSeq, issued, held, worklet>>

\* Variant: the state is marked enabled before the acquisition settles.
getUserMediaReject_Partial ==
    /\ pending > 0
    /\ pending' = pending - 1
    /\ Commit([Engine EXCEPT !.state = MicOn(state)])
    /\ call' = Call("enableMicrophone.rejected", NoId, "", FALSE, NoId)
    /\ UNCHANGED <<liveStreams, uuidSeq, issued, held, worklet>>

\* getUserMedia rejects: the await at line 128 throws, the call rejects.
getUserMediaReject ==
    /\ pending > 0
    /\ pending' = pending - 1
    /\ Commit(Engine)
    /\ call' = Call("enableMicrophone.rejected", NoId, "", FALSE, NoId)
    /\ UNCHANGED <<liveStreams, uuidSeq, issued, held, worklet>>

\* Variant: the declared source is left as it was.
disableMicrophone_KeepSource ==
    /\ liveStreams' = liveStreams \ {micStream}
    /\ Commit(updateState(
           [Engine EXCEPT !.connections =
                              IF micSource # 0 THEN Disconnect(@, MicNode(micSource))
                              ELSE @,
                          !.micStream = 0,
                          !.micSource = 0],
           [state EXCEPT !.mic.enabled = FALSE]))
    /\ call' = Call("disableMicrophone", NoId, "", TRUE, NoId)
    /\ UNCHANGED <<pending, uuidSeq, issued, held, worklet>>

disableMicrophone ==
    /\ liveStreams' = liveStreams \ {micStream}
    /\ Commit(updateState(
           [Engine EXCEPT !.connections =
                              IF micSource # 0 THEN Disconnect(@, MicNode(micSource))
                              ELSE @,
                          !.micStream = 0,
                          !.micSource = 0],
           [state EXCEPT !.mic.enabled = FALSE,
                         !.source = IF @ = "microphone" THEN "oscillator" ELSE @]))
    /\ call' = Call("disableMicrophone", NoId, "", TRUE, NoId)
    /\ UNCHANGED <<pending, uuidSeq, issued, held, worklet>>

setSource(source) ==
    /\ IF source = "microphone" /\ ~state.mic.enabled
       THEN /\ Commit(Engine)
            /\ call' = Call("setSource", NoId, source, FALSE, NoId)
       ELSE /\ Commit(updateState(Engine, [state EXCEPT !.source = source]))
            /\ call' = Call("setSource", NoId, source, TRUE, NoId)
    /\ UNCHANGED <<liveStreams, pending, uuidSeq, issued, held, worklet>>

\* Variant: the flag is inverted, whatever the argument.
setStageBypass_Toggle(id, bypassed) ==
    /\ LET index == findIndex(state.stages, id)
       IN Commit(updateState(Engine,
              IF index # 0 THEN [state EXCEPT !.stages[index].bypassed = ~@]
              ELSE state))
    /\ call' = Call("setStageBypass", id, IF bypassed THEN "true" ELSE "false",
                     TRUE, NoId)
    /\ UNCHANGED <<liveStreams, pending, uuidSeq, issued, held, worklet>>

setStageBypass(id, bypassed) ==
    /\ LET index == findIndex(state.stages, id)
       IN Commit(updateState(Engine,
              IF index # 0 THEN [state EXCEPT !.stages[index].bypassed = bypassed]
              ELSE state))
    /\ call' = Call("setStageBypass", id, IF bypassed THEN "true" ELSE "false",
                     TRUE, NoId)
    /\ UNCHANGED <<liveStreams, pending, uuidSeq, issued, held, worklet>>

\* Variant: the partial replaces the params.
Merge_Replace(old, new) == new

\* { ...stage.params, ...params }
Merge(old, new) ==
    [k \in DOMAIN old \cup DOMAIN new |-> IF k \in DOMAIN new THEN new[k] ELSE old[k]]

setStageParams(id, params) ==
    /\ LET index == findIndex(state.stages, id)
       IN Commit(updateState(Engine,
              IF index # 0
              THEN [state EXCEPT !.stages[index].params = Merge(@, params)]
              ELSE state))
    /\ call' = [Call("setStageParams", id, "", TRUE, NoId) EXCEPT !.params = params]
    /\ UNCHANGED <<liveStreams, pending, uuidSeq, issued, held, worklet>>

\* Variant: the new stage is placed before the stage named by afterId.
addStageDraw_Before(kind, afterId, uuid) ==
    /\ LET id == <<kind, uuid>>
           index == IF afterId # NoId THEN findIndex(state.stages, afterId) ELSE 0
           newStage == [id |-> id, kind |-> kind, bypassed |-> FALSE,
                        params |-> getDefaultParams(kind)]
       IN IF Throws(newStage.params)
          THEN /\ Commit(Engine)
               /\ call' = Call("addStage", afterId, kind, FALSE, NoId)
               /\ UNCHANGED <<uuidSeq, issued>>
          ELSE /\ Commit(updateState(Engine,
                      [state EXCEPT !.stages =
                          IF index # 0 THEN InsertAt(@, index, newStage)
                          ELSE Append(@, newStage)]))
               /\ call' = Call("addStage", afterId, kind, TRUE, id)
               /\ uuidSeq' = uuidSeq + 1
               /\ issued' = issued \cup {id}
    /\ UNCHANGED <<liveStreams, pending, held, worklet>>

\* addStage when crypto.randomUUID().slice(0, 8) returns uuid.  The id is
\* built first; when getDefaultParams throws, the error leaves updateState
\* before the push, the emission and the rebuild (the drawn value is
\* dropped) and reaches the caller.
addStageDraw(kind, afterId, uuid) ==
    /\ LET id == <<kind, uuid>>
           index == IF afterId # NoId THEN findIndex(state.stages, afterId) ELSE 0
           newStage == [id |-> id, kind |-> kind, bypassed |-> FALSE,
                        params |-> getDefaultParams(kind)]
       IN IF Throws(newStage.params)
          THEN /\ Commit(Engine)
               /\ call' = Call("addStage", afterId, kind, FALSE, NoId)
               /\ UNCHANGED <<uuidSeq, issued>>
          ELSE /\ Commit(updateState(Engine,
                      [state EXCEPT !.stages =
                          IF index # 0 THEN InsertAt(@, index + 1, newStage)
                          ELSE Append(@, newStage)]))
               /\ call' = Call("addStage", afterId, kind, TRUE, id)
               /\ uuidSeq' = uuidSeq + 1
               /\ issued' = issued \cup {id}
    /\ UNCHANGED <<liveStreams, pending, held, worklet>>

\* addStage when the draw is a value no earlier draw returned.
addStage(kind, afterId) ==
    /\ uuidSeq < MaxAdded
    /\ addStageDraw(kind, afterId, uuidSeq + 1)

\* Variant: splice(index, 1) without the test of index; splice(-1, 1) removes
\* the last stage.
removeStage_NoCheck(id) ==
    /\ LET index == findIndex(state.stages, id)
       IN Commit(updateState(Engine,
              IF index # 0 THEN [state EXCEPT !.stages = RemoveAt(@, index)]
              ELSE IF state.stages # <<>>
              THEN [state EXCEPT !.stages = RemoveAt(@, Len(@))]
              ELSE state))
    /\ call' = Call("removeStage", id, "", TRUE, NoId)
    /\ UNCHANGED <<liveStreams, pending, uuidSeq, issued, held, worklet>>

removeStage(id) ==
    /\ LET index == findIndex(state.stages, id)
       IN Commit(updateState(Engine,
              IF index # 0 THEN [state EXCEPT !.stages = RemoveAt(@, index)]
              ELSE state))
    /\ call' = Call("removeStage", id, "", TRUE, NoId)
    /\ UNCHANGED <<liveStreams, pending, uuidSeq, issued, held, worklet>>

\* Variant: no test of newIndex; splice(-1, 0, stage) inserts before the last
\* stage.
moveStageOrder_NoBounds(stages, id, direction) ==
    LET index == findIndex(stages, id)
        newIndex == IF direction = "up" THEN index - 1 ELSE index + 1
        rest == RemoveAt(stages, index)
    IN IF index = 0 THEN stages
       ELSE IF newIndex < 1
       THEN InsertAt(rest, Max(Len(rest), 1), stages[index])
       ELSE IF newIndex > Len(stages) THEN Append(rest, stages[index])
       ELSE InsertAt(rest, newIndex, stages[index])

\* The mutator of moveStage, as a function of the stages.
moveStageOrder(stages, id, direction) ==
    LET index == findIndex(stages, id)
        newIndex == IF direction = "up" THEN index - 1 ELSE index + 1
    IN IF index = 0 THEN stages
       ELSE IF newIndex < 1 \/ newIndex > Len(stages) THEN stages
       ELSE InsertAt(RemoveAt(stages, index), newIndex, stages[index])

moveStage(id, direction) ==
    /\ Commit(updateState(Engine,
           [state EXCEPT !.stages = moveStageOrder(@, id, direction)]))
    /\ call' = Call("moveStage", id, direction, TRUE, NoId)
    /\ UNCHANGED <<liveStreams, pending, uuidSeq, issued, held, worklet>>

(***************************************************************************)
(* Subscriptions and snapshots.                                            *)
(***************************************************************************)
Subscribed(subs) == {subs[i] : i \in 1..Len(subs)}

\* subscribe(handler): lines 83-87.  Set.add keeps one entry per handler.
subscribe(h) ==
    /\ LET e0 == [Engine EXCEPT !.subscribers =
                      IF h \in Subscribed(@) THEN @ ELSE Append(@, h)]
       IN Commit(Notify(e0, h, cloneState(e0)))
    /\ call' = Call("subscribe", NoId, h, TRUE, NoId)
    /\ UNCHANGED <<liveStreams, pending, uuidSeq, issued, held, worklet>>

\* The function subscribe returned: line 86.  The handler forgets what it
\* received.
unsubscribe(h) ==
    /\ h \in Subscribed(subscribers)
    /\ Commit([Engine EXCEPT
           !.subscribers = SelectSeq(@, LAMBDA x : x # h),
           !.received[h] = <<>>])
    /\ call' = Call("unsubscribe", NoId, h, TRUE, NoId)
    /\ UNCHANGED <<liveStreams, pending, uuidSeq, issued, held, worklet>>

\* getState(): lines 89-91.  The caller keeps the snapshot.
getState ==
    /\ held' = <<cloneState(Engine)>>
    /\ Commit(Engine)
    /\ call' = Call("getState", NoId, "", TRUE, NoId)
    /\ UNCHANGED <<liveStreams, pending, uuidSeq, issued, worklet>>

\* The caller keeps the snapshot a handler received.
holdReceived(h) ==
    /\ received[h] # <<>>
    /\ held' = received[h]
    /\ Commit(Engine)
    /\ call' = Call("holdReceived", NoId, h, TRUE, NoId)
    /\ UNCHANGED <<liveStreams, pending, uuidSeq, issued, worklet>>

\* A write to a part of the snapshot reaches the engine's state when the
\* written object, or an object it is reached through, is the engine's own.
Reaches(shared, part) ==
    \/ part \in shared
    \/ "root" \in shared
    \/ part \in {"stage", "params"} /\ "stages" \in shared
    \/ part = "params" /\ "stage" \in shared

\* The caller writes to the snapshot it keeps; no engine method runs.
mutateSnapshot(part) ==
    /\ held # <<>>
    /\ held[1].stages # <<>>
    /\ state.stages # <<>>
    /\ held' = <<Write(held[1], part)>>
    /\ state' = IF Reaches(held[1].shared, part) THEN Write(state, part) ELSE state
    /\ call' = Call("mutateSnapshot", NoId, part, TRUE, NoId)
    /\ emits' = <<>>
    /\ probe' = NoProbe
    /\ UNCHANGED <<ctx, oscillator, oscParams, oscStarted, micStream, micSource,
                   liveStreams, pending, stageInstances, connections,
                   createCount, disposeCount, uuidSeq, issued, lastSnapshot,
                   subscribers, received, worklet>>

(***************************************************************************)
(* The AudioWorklet processors (src/src/audio/worklets).  One processor is *)
(* followed: the messages its port receives, its initWasm calls and the    *)
(* blocks it processes.  A block's output is "input" when it is the        *)
(* unmodified input and "processed" when the WASM call wrote it.           *)
(***************************************************************************)
EngineVars ==
    <<ctx, state, oscillator, oscParams, oscStarted, micStream, micSource,
      liveStreams, pending, stageInstances, connections, createCount,
      disposeCount, uuidSeq, issued, emits, lastSnapshot, subscribers,
      received, held, probe>>

WorkletOp(op, arg) ==
    /\ call' = Call(op, NoId, arg, TRUE, NoId)
    /\ UNCHANGED EngineVars

\* The processor's constructor: this.processor = null, this.gain is the
\* processorOptions gain.
newProcessor(kind, gain) ==
    /\ worklet.kind = "none"
    /\ worklet' = [kind |-> kind, gain |-> gain, processor |-> FALSE,
                   wasmGain |-> <<>>, wasmInitialized |-> FALSE, awaiting |-> 0, completed |-> FALSE,
                   lastSet |-> gain, block |-> NoBlock]
    /\ WorkletOp("newProcessor", kind)

\* port.onmessage with { type: 'setGain', value }.  wasmGain holds the
\* argument of the last set_gain call on the WASM object, if any.
onSetGain(w, value) ==
    IF w.kind = "uiua-worklet"
    THEN [w EXCEPT !.gain = Min(Max(value, 0), 200), !.lastSet = value]
    ELSE [w EXCEPT !.gain = value,
                   !.wasmGain = IF w.processor THEN <<value>> ELSE @,
                   !.lastSet = value]

setGainMessage(value) ==
    /\ worklet.kind # "none"
    /\ worklet' = onSetGain(worklet, value)
    /\ WorkletOp("setGain", "")

\* Variant: the new WASM object keeps the gain it was constructed with.
createProcessor_NoSetGain(w) ==
    [w EXCEPT !.wasmInitialized = TRUE,
              !.processor = TRUE,
              !.wasmGain = <<>>,
              !.completed = TRUE]

\* initWasm after its await: the WASM object is created and, in the gain
\* processors, given this.gain.
createProcessor(w) ==
    [w EXCEPT !.wasmInitialized = TRUE,
              !.processor = TRUE,
              !.wasmGain = IF w.kind = "uiua-worklet" THEN <<>> ELSE <<w.gain>>,
              !.completed = TRUE]

\* port.onmessage with { type: 'initWasm' }: initWasm runs up to its await,
\* or to its end when the module is initialised already.
initWasmMessage ==
    /\ worklet.kind # "none"
    /\ worklet.awaiting < MaxInits
    /\ worklet' = IF worklet.wasmInitialized THEN createProcessor(worklet)
                  ELSE [worklet EXCEPT !.awaiting = @ + 1]
    /\ WorkletOp("initWasm", "")

\* init(wasmBytes) resolves and one initWasm call runs to its end.
initResolve ==
    /\ worklet.awaiting > 0
    /\ worklet' = createProcessor([worklet EXCEPT !.awaiting = @ - 1])
    /\ WorkletOp("initResolve", "")

\* init(wasmBytes) rejects: the call ends without a WASM object.
initReject ==
    /\ worklet.awaiting > 0
    /\ worklet' = [worklet EXCEPT !.awaiting = @ - 1]
    /\ WorkletOp("initReject", "")

\* process() for one channel; throws says that the WASM call throws.
processBlock(w, throws) ==
    IF ~w.processor
    THEN [ready |-> FALSE, threw |-> FALSE, output |-> "input", result |-> "true"]
    ELSE IF throws
    THEN [ready |-> TRUE, threw |-> TRUE, output |-> "input",
          result |-> IF w.kind = "wasm-gain" THEN "throw" ELSE "true"]
    ELSE [ready |-> TRUE, threw |-> FALSE, output |-> "processed", result |-> "true"]

process(throws) ==
    /\ worklet.kind # "none"
    /\ worklet' = [worklet EXCEPT
           !.gain = IF worklet.kind = "uiua-worklet" THEN Min(Max(@, 0), 200) ELSE @,
           !.block = processBlock(worklet, throws)]
    /\ WorkletOp("process", "")

(***************************************************************************)
(* Specifications.                                                         *)
(***************************************************************************)
IdArgs == StageIds(state.stages) \cup {StaleId}

ParamArgs == {[gain |-> 25], [wet |-> 30]}

Next ==
    \/ InitEngine
    \/ startOscillator
    \/ stopOscillator
    \/ \E freq \in Freqs : setFrequency(freq)
    \/ \E type \in Waveforms : setType(type)
    \/ enableMicrophone
    \/ getUserMediaResolve
    \/ getUserMediaReject
    \/ disableMicrophone
    \/ \E source \in SourceTypes : setSource(source)
    \/ \E id \in IdArgs, bypassed \in BOOLEAN : setStageBypass(id, bypassed)
    \/ \E id \in IdArgs, params \in ParamArgs : setStageParams(id, params)
    \/ \E kind \in AddKinds, afterId \in IdArgs \cup {NoId} : addStage(kind, afterId)
    \/ \E id \in IdArgs : removeStage(id)
    \/ \E id \in IdArgs, direction \in Directions : moveStage(id, direction)
    \/ \E h \in Handlers : subscribe(h)
    \/ \E h \in Handlers : unsubscribe(h)
    \/ getState
    \/ \E h \in Handlers : holdReceived(h)
    \/ \E part \in Parts : mutateSnapshot(part)
    \/ \E kind \in WorkletKinds, gain \in WorkletGains : newProcessor(kind, gain)
    \/ \E value \in WorkletGains : setGainMessage(value)
    \/ initWasmMessage
    \/ initResolve
    \/ initReject
    \/ \E throws \in BOOLEAN : process(throws)

Spec == Init /\ [][Next]_vars

\* One processor of any kind receives messages and processes blocks.
NextWorklet ==
    \/ \E kind \in WorkletKinds, gain \in WorkletGains : newProcessor(kind, gain)
    \/ \E value \in WorkletGains : setGainMessage(value)
    \/ initWasmMessage
    \/ initResolve
    \/ initReject
    \/ \E throws \in BOOLEAN : process(throws)

SpecWorklet == Init /\ [][NextWorklet]_vars

\* One processor of a kind the stage registry creates.
NextGainWorklet ==
    \/ \E kind \in WorkletKinds \cap StageKinds, gain \in WorkletGains :
          newProcessor(kind, gain)
    \/ \E value \in WorkletGains : setGainMessage(value)
    \/ initWasmMessage
    \/ initResolve
    \/ initReject
    \/ \E throws \in BOOLEAN : process(throws)

SpecGainWorklet == Init /\ [][NextGainWorklet]_vars

\* Subscribers come and go while the waveform and the sources change.
\* enableMicrophone calls do not overlap here.
NextSubs ==
    \/ InitEngine
    \/ \E h \in Handlers : subscribe(h)
    \/ \E h \in Handlers : unsubscribe(h)
    \/ \E type \in Waveforms : setType(type)
    \/ startOscillator
    \/ stopOscillator
    \/ (pending = 0 /\ ~state.mic.enabled /\ enableMicrophone)
    \/ getUserMediaResolve
    \/ disableMicrophone

SpecSubs == Init /\ [][NextSubs]_vars

\* The same with a handler that only keeps what it is given.
NextMeters ==
    \/ InitEngine
    \/ \E h \in {"meter"} : subscribe(h)
    \/ \E h \in {"meter"} : unsubscribe(h)
    \/ \E type \in Waveforms : setType(type)
    \/ startOscillator
    \/ stopOscillator
    \/ (pending = 0 /\ ~state.mic.enabled /\ enableMicrophone)
    \/ getUserMediaResolve
    \/ disableMicrophone

SpecMeters == Init /\ [][NextMeters]_vars

\* Parameter updates whose keys are, and are not, keys of the stage's schema.
ShapeCalls ==
    { <<<<"gain", 0>>, [gain |-> 25]>>,
      <<<<"gain", 0>>, [wet |-> 30]>>,
      <<<<"pan", 0>>, [pan |-> 50]>>,
      <<<<"delay", 0>>, [gain |-> 25]>> }

NextShape ==
    \/ InitEngine
    \/ startOscillator
    \/ stopOscillator
    \/ \E id \in InitialIds, bypassed \in BOOLEAN : setStageBypass(id, bypassed)
    \/ \E c \in ShapeCalls : setStageParams(c[1], c[2])

SpecShape == Init /\ [][NextShape]_vars

\* Callers keep snapshots and write to them while the state changes.
NextSnap ==
    \/ startOscillator
    \/ \E id \in InitialIds, bypassed \in BOOLEAN : setStageBypass(id, bypassed)
    \/ \E h \in {"meter"} : subscribe(h)
    \/ getState
    \/ \E h \in {"meter"} : holdReceived(h)
    \/ \E part \in Parts : mutateSnapshot(part)

SpecSnap == Init /\ [][NextSnap]_vars

\* The source side: every source command, with overlapping enableMicrophone
\* calls; the stages keep their membership and order.
NextSource ==
    \/ InitEngine
    \/ startOscillator
    \/ stopOscillator
    \/ \E freq \in Freqs : setFrequency(freq)
    \/ \E type \in Waveforms : setType(type)
    \/ enableMicrophone
    \/ getUserMediaResolve
    \/ getUserMediaReject
    \/ disableMicrophone
    \/ \E source \in SourceTypes : setSource(source)
    \/ \E id \in IdArgs, bypassed \in BOOLEAN : setStageBypass(id, bypassed)

SpecSource == Init /\ [][NextSource]_vars

\* The stage lifecycle: stages are added and removed while the sources come
\* and go.  enableMicrophone calls do not overlap here, and only the bypass
\* flag of added stages is switched.
NextLife ==
    \/ InitEngine
    \/ startOscillator
    \/ stopOscillator
    \/ (pending = 0 /\ enableMicrophone)
    \/ getUserMediaResolve
    \/ disableMicrophone
    \/ \E id \in IdArgs \ InitialIds, bypassed \in BOOLEAN : setStageBypass(id, bypassed)
    \/ \E kind \in LifeKinds, afterId \in IdArgs \cup {NoId} : addStage(kind, afterId)
    \/ \E id \in IdArgs : removeStage(id)

SpecLife == Init /\ [][NextLife]_vars

\* Stages are added, with kinds of the registry and with a kind it lacks, and
\* removed, with the oscillator as the only source.
NextAdd ==
    \/ InitEngine
    \/ startOscillator
    \/ stopOscillator
    \/ \E kind \in AddKinds, afterId \in IdArgs \cup {NoId} : addStage(kind, afterId)
    \/ \E kind \in UnknownKinds : addStage(kind, NoId)
    \/ \E id \in IdArgs : removeStage(id)

SpecAdd == Init /\ [][NextAdd]_vars

\* The stage commands that keep the membership of the chain: flags,
\* parameters and order, with the oscillator as the only source.
ParamCalls ==
    { <<<<"gain", 0>>, [gain |-> 25]>>,
      <<<<"delay", 0>>, [wet |-> 30]>>,
      <<StaleId, [gain |-> 25]>> }

NextStages ==
    \/ InitEngine
    \/ startOscillator
    \/ stopOscillator
    \/ \E id \in IdArgs, bypassed \in BOOLEAN : setStageBypass(id, bypassed)
    \/ \E c \in ParamCalls : setStageParams(c[1], c[2])
    \/ \E id \in IdArgs, direction \in Directions : moveStage(id, direction)

SpecStages == Init /\ [][NextStages]_vars

\* Parameter values inside and outside the ranges of the schema, given
\* before and after the instances exist.
ClampCalls ==
    { <<<<"gain", 0>>, [gain |-> 250]>>,
      <<<<"gain", 0>>, [gain |-> -50]>>,
      <<<<"pan", 0>>, [pan |-> -150]>>,
      <<<<"delay", 0>>, [wet |-> 130, feedback |-> 99]>>,
      <<<<"delay", 0>>, [time |-> 30]>>,
      <<<<"delay", 0>>, [time |-> 250]>> }

NextParams ==
    \/ InitEngine
    \/ startOscillator
    \/ stopOscillator
    \/ \E c \in ClampCalls : setStageParams(c[1], c[2])

SpecParams == Init /\ [][NextParams]_vars

\* Commands called with the id of no stage: an id that never was in the
\* chain, or the id of a stage removed before.
GoneIds == (InitialIds \cup {StaleId}) \ StageIds(state.stages)

NextStale ==
    \/ InitEngine
    \/ startOscillator
    \/ stopOscillator
    \/ \E id \in StageIds(state.stages) : setStageBypass(id, FALSE)
    \/ \E id \in StageIds(state.stages) : removeStage(id)
    \/ \E id \in GoneIds, bypassed \in BOOLEAN : setStageBypass(id, bypassed)
    \/ \E id \in GoneIds, params \in ParamArgs : setStageParams(id, params)
    \/ \E id \in GoneIds : removeStage(id)
    \/ \E id \in GoneIds, direction \in Directions : moveStage(id, direction)

SpecStale == Init /\ [][NextStale]_vars

\* Stage ids: crypto.randomUUID().slice(0, 8) may return a value it returned
\* before.
UuidPool == 1..MaxDraws

NextIds ==
    \/ InitEngine
    \/ startOscillator
    \/ stopOscillator
    \/ \E uuid \in UuidPool : (uuidSeq < MaxDraws /\ addStageDraw("gain", NoId, uuid))
    \/ \E id \in StageIds(state.stages) : removeStage(id)

SpecIds == Init /\ [][NextIds]_vars

(***************************************************************************)
(* Properties.                                                             *)
(***************************************************************************)
SourceExists == oscillator # 0 \/ micSource # 0

\* The source the chain is fed from: the declared one when its node exists,
\* otherwise the one that does.
EffectiveSourceNode ==
    IF state.source = "microphone" /\ micSource # 0 THEN MicNode(micSource)
    ELSE IF state.source = "oscillator" /\ oscillator # 0 THEN OscNode(oscillator)
    ELSE IF micSource # 0 THEN MicNode(micSource)
    ELSE OscNode(oscillator)

\* The connections of the path tail -> non-bypassed stages from i on -> sink.
RECURSIVE PathFrom(_, _)
PathFrom(i, tail) ==
    IF i > Len(state.stages)
    THEN {<<tail, MasterGain>>, <<tail, Analyser>>}
    ELSE LET stage == state.stages[i]
         IN IF stage.bypassed THEN PathFrom(i + 1, tail)
            ELSE IF stage.id \notin DOMAIN stageInstances
            THEN {<<Destination, Destination>>}
            ELSE {<<tail, InputNode(stage.id, stageInstances[stage.id])>>}
                 \cup PathFrom(i + 1, OutputNode(stage.id, stageInstances[stage.id]))

\* The connections the engine made: all but the private wiring of the live
\* instances and the fixed masterGain -> destination.
BoundaryConnections ==
    connections \ (UNION {InternalWiring(id, stageInstances[id]) :
                             id \in DOMAIN stageInstances}
                   \cup {<<MasterGain, Destination>>})

\* C1: after init, whenever a source node exists, the engine-made connections
\* are exactly effective source -> non-bypassed stages in order -> masterGain
\* and analyser.
C1_TopologyFidelity ==
    (ctx /\ SourceExists) => BoundaryConnections = PathFrom(1, EffectiveSourceNode)

\* C2: after init, the instance table holds no instance whose id is not in
\* state.stages, and each id has at most one live instance.
C2_InstanceLifecycle ==
    ctx => /\ DOMAIN stageInstances \subseteq StageIds(state.stages)
           /\ \A id \in AllIds : createCount[id] - disposeCount[id] <= 1

C4_SelfHealingSource ==
    ctx => /\ (state.source = "microphone" => micSource # 0)
           /\ (SourceExists =>
                  IF state.source = "microphone" THEN micSource # 0
                  ELSE oscillator # 0)

\* stopOscillator with the microphone enabled: the source was corrected.
C4_Witness ==
    /\ ctx /\ call.op = "stopOscillator" /\ call.prevSource = "oscillator"
    /\ state.source = "microphone" /\ micSource # 0 /\ oscillator = 0
    /\ Len(emits) = 2

\* C5: after init, running = false implies no live oscillator node, and
\* running = true implies exactly one, with the state's type and frequency.
C5_OscillatorMirror ==
    ctx => IF state.oscillator.running
           THEN /\ oscillator # 0
                /\ oscStarted = {oscillator}
                /\ oscParams = [type |-> state.oscillator.type,
                                frequency |-> state.oscillator.frequency]
           ELSE oscillator = 0 /\ oscStarted = {}

C5_Witness ==
    /\ ctx /\ state.oscillator.running /\ oscillator # 0
    /\ call.op = "setFrequency"
    /\ oscParams = [type |-> "square", frequency |-> 3000]

C7_EnableMicrophoneFailureAtomic ==
    [][(\/ call'.op = "enableMicrophone.rejected"
        \/ (call'.op = "enableMicrophone" /\ pending' = pending + 1))
          => /\ UNCHANGED <<state, stageInstances, connections, oscillator,
                            oscParams, oscStarted, micStream, micSource,
                            liveStreams, lastSnapshot>>
             /\ emits' = <<>>
             /\ (call'.op = "enableMicrophone.rejected" => ~call'.ok)]_vars

C7_Witness ==
    /\ ctx /\ call.op = "enableMicrophone.rejected" /\ ~call.ok
    /\ ~state.mic.enabled /\ emits = <<>> /\ lastSnapshot # <<>>

\* C8: every acquired stream whose tracks are live is the stream the engine
\* retains.
C8_StreamOwnership ==
    \A stream \in liveStreams : stream = micStream

\* C9: setSource with an unavailable source (microphone not enabled, or
\* oscillator not running) returns false and leaves the state unchanged.
C9_SetSourceUnavailable ==
    [][(/\ call'.op = "setSource"
        /\ \/ (call'.arg = "microphone" /\ ~state.mic.enabled)
           \/ (call'.arg = "oscillator" /\ ~state.oscillator.running))
          => (~call'.ok /\ state' = state)]_vars

\* C10: after init with a source, a bypassed stage's instance is in the table
\* and not disposed, has no connection into its entry nor out of its exit,
\* and received update() with the stage's params.
C10_BypassRetention ==
    (ctx /\ SourceExists) =>
        \A i \in 1..Len(state.stages) :
            LET stage == state.stages[i]
            IN stage.bypassed =>
                  /\ stage.id \in DOMAIN stageInstances
                  /\ disposeCount[stage.id] = 0
                  /\ LET inst == stageInstances[stage.id]
                     IN /\ inst.updated /\ inst.lastUpdate = stage.params
                        /\ \A c \in BoundaryConnections :
                              /\ c[2] # InputNode(stage.id, inst)
                              /\ c[1] # OutputNode(stage.id, inst)

StageCommands == {"setStageParams", "setStageBypass", "moveStage"}

\* What C11 says of every stage command on an id that stays: no second
\* instance, no disposal, the instance of the table stays the same one.
Reused(id) ==
    /\ createCount'[id] <= 1
    /\ disposeCount'[id] = disposeCount[id]
    /\ id \in DOMAIN stageInstances =>
          /\ id \in DOMAIN stageInstances'
          /\ stageInstances'[id].gen = stageInstances[id].gen
          /\ createCount'[id] = createCount[id]

\* C11 (as claimed): for an id that stays in state.stages, a setStageParams,
\* setStageBypass or moveStage call creates no second instance and disposes
\* none, the factory ran at most once for the id, and after the call there
\* is exactly one instance for the id.
C11_ExactlyOneInstance ==
    [][(ctx /\ call'.op \in StageCommands) =>
          \A id \in StageIds(state.stages) \cap StageIds(state'.stages) :
              /\ Reused(id)
              /\ id \in DOMAIN stageInstances'
              /\ createCount'[id] = 1]_vars

\* C11 (amended): as claimed, but after the call there is at most one
\* instance for the id: exactly one when a source node exists (after init),
\* and otherwise the one there was before the call, if any.
C11_InstanceReuse ==
    [][call'.op \in StageCommands =>
          \A id \in StageIds(state.stages) \cap StageIds(state'.stages) :
              /\ Reused(id)
              /\ (ctx' /\ SourceExists') =>
                    (id \in DOMAIN stageInstances' /\ createCount'[id] = 1)
              /\ ~(ctx' /\ SourceExists') =>
                    (id \in DOMAIN stageInstances') = (id \in DOMAIN stageInstances)]_vars

\* A parameter update reached the instance of the first built-in stage, and
\* a later move was rebuilt around the same instance.
C11_Witness ==
    /\ ctx /\ SourceExists
    /\ call.op = "moveStage"
    /\ <<"gain", 0>> \in DOMAIN stageInstances
    /\ stageInstances[<<"gain", 0>>].gen = 1
    /\ stageInstances[<<"gain", 0>>].lastUpdate.gain = 25
    /\ state.stages[1].id # <<"gain", 0>>

\* The nodes of the instances of a table.
TableNodes(table) == UNION {InstanceNodes(id, table[id]) : id \in DOMAIN table}

StageNode(node) == node.id \notin {<<"source", 0>>, <<"sink", 0>>}

\* C12: dispose() is called at most once on an instance, and only on an
\* instance whose id is no longer in state.stages; a disposed instance is
\* out of the table, where update() no longer reaches it, and no connection
\* made afterwards has one of its nodes at either end.
C12_DisposeOnce ==
    [][/\ \A id \in AllIds :
             /\ disposeCount'[id] <= createCount'[id]
             /\ id \in DOMAIN stageInstances' =>
                   /\ stageInstances'[id].gen = createCount'[id]
                   /\ disposeCount'[id] < createCount'[id]
             /\ disposeCount'[id] # disposeCount[id] =>
                   /\ disposeCount'[id] = disposeCount[id] + 1
                   /\ id \notin StageIds(state'.stages)
                   /\ id \notin DOMAIN stageInstances'
       /\ \A c \in connections' \ connections :
             \A k \in 1..2 :
                 StageNode(c[k]) => c[k] \in TableNodes(stageInstances')]_vars

\* An instance was disposed, and a later command added a stage to the chain.
C12_Witness ==
    /\ ctx /\ SourceExists
    /\ call.op = "addStage" /\ call.ok
    /\ call.retId \in DOMAIN stageInstances
    /\ \E id \in AllIds :
          /\ disposeCount[id] = 1
          /\ id \notin DOMAIN stageInstances
          /\ id \notin StageIds(state.stages)

\* C13: from its creation until dispose(), the connections inside a delay
\* instance are in the graph; what a step removes leaves a source node, the
\* exit node of an instance, or a node of an instance disposed in the step.
C13_InternalWiringStable ==
    [][/\ \A id \in DOMAIN stageInstances' :
             InternalWiring(id, stageInstances'[id]) \subseteq connections'
       /\ \A c \in connections \ connections' :
             \/ c[1] \in {OscNode(oscillator), MicNode(micSource)}
             \/ \E id \in DOMAIN stageInstances :
                   \/ c[1] = OutputNode(id, stageInstances[id])
                   \/ /\ id \notin DOMAIN stageInstances'
                      /\ disposeCount'[id] = disposeCount[id] + 1
                      /\ c[1] \in InstanceNodes(id, stageInstances[id])]_vars

\* The delay was put in the chain by a rebuild that followed the disposal
\* of another instance; its inner connections are there.
C13_Witness ==
    /\ ctx /\ SourceExists
    /\ call.op = "setStageBypass" /\ call.arg = "false"
    /\ \E id \in InitialIds : disposeCount[id] = 1
    /\ call.id \in DOMAIN stageInstances
    /\ stageInstances[call.id].kind = "delay"
    /\ InternalWiring(call.id, stageInstances[call.id]) \subseteq connections
    /\ \E c \in connections : c[2] = InputNode(call.id, stageInstances[call.id])

StaleCommands == {"setStageBypass", "setStageParams", "removeStage", "moveStage"}

\* C14: setStageBypass, setStageParams, removeStage and moveStage called with
\* an id that is not in state.stages raise no error, leave the canonical
\* state unchanged, and neither create nor dispose an instance for the id.
C14_StaleIdNoOp ==
    [][(call'.op \in StaleCommands /\ call'.id \notin StageIds(state.stages))
          => /\ call'.ok
             /\ state' = state
             /\ createCount'[call'.id] = createCount[call'.id]
             /\ disposeCount'[call'.id] = disposeCount[call'.id]
             /\ (call'.id \in DOMAIN stageInstances')
                    = (call'.id \in DOMAIN stageInstances)]_vars

\* moveStage with the id of a stage removed before, on a running chain.
C14_Witness ==
    /\ ctx /\ SourceExists
    /\ call.op = "moveStage"
    /\ call.id \in InitialIds
    /\ call.id \notin StageIds(state.stages)
    /\ disposeCount[call.id] = 1

\* C15: addStage adds exactly one stage, with the returned id, the kind,
\* bypassed = false and the defaults of the kind, right after the stage
\* afterId when it is given and found and at the end otherwise; the other
\* stages keep their values and their relative order.
C15_AddStagePost ==
    [][(call'.op = "addStage" /\ call'.ok) =>
          LET old == state.stages
              new == state'.stages
              index == IF call'.id # NoId /\ call'.id \in StageIds(old)
                       THEN CHOOSE i \in 1..Len(old) :
                                /\ old[i].id = call'.id
                                /\ \A j \in 1..(i - 1) : old[j].id # call'.id
                       ELSE Len(old)
              pos == index + 1
          IN /\ Len(new) = Len(old) + 1
             /\ new[pos] = [id |-> call'.retId, kind |-> call'.arg,
                            bypassed |-> FALSE,
                            params |-> getDefaultParams(call'.arg)]
             /\ \A j \in 1..Len(old) :
                   old[j] = new[IF j < pos THEN j ELSE j + 1]]_vars

\* A stage added after the first of three: it is second of four.
C15_Witness ==
    /\ call.op = "addStage" /\ call.ok
    /\ call.id = <<"gain", 0>>
    /\ Len(state.stages) = 4
    /\ state.stages[1].id = call.id
    /\ state.stages[2].id = call.retId

\* C16: the ids of state.stages are pairwise distinct, and the id addStage
\* returns is none of the ids that ever were in state.stages.
C16_StageIdsUnique ==
    [][/\ \A i, j \in 1..Len(state'.stages) :
             i # j => state'.stages[i].id # state'.stages[j].id
       /\ (call'.op = "addStage" /\ call'.ok /\ issued' # issued) =>
             call'.retId \notin InitialIds \cup issued \cup StageIds(state.stages)]_vars

\* C17: addStage with a kind that is not registered fails, and leaves the
\* canonical state, the instance table and the graph unchanged.
C17_AddStageUnknownKind ==
    [][(call'.op = "addStage" /\ call'.arg \notin StageKinds)
          => /\ ~call'.ok
             /\ state' = state
             /\ stageInstances' = stageInstances
             /\ connections' = connections]_vars

\* The failed call, on a running chain with instances.
C17_Witness ==
    /\ ctx /\ SourceExists
    /\ call.op = "addStage" /\ ~call.ok
    /\ call.arg \in UnknownKinds
    /\ DOMAIN stageInstances # {}

\* The stages with those of positions i and j exchanged.
Swap(stages, i, j) ==
    [k \in 1..Len(stages) |->
        IF k = i THEN stages[j] ELSE IF k = j THEN stages[i] ELSE stages[k]]

Count(stages, stage) == Cardinality({k \in 1..Len(stages) : stages[k] = stage})

\* C18: moveStage is a no-op for the first stage moved up and the last moved
\* down, exchanges the stage with its neighbour otherwise, always leaves a
\* permutation of the stages; up then down of a stage that is not first
\* gives the order back.
C18_MoveStageAlgebra ==
    [][/\ call'.op = "moveStage" =>
             LET old == state.stages
                 new == state'.stages
                 n == Len(old)
                 i == findIndex(old, call'.id)
             IN /\ Len(new) = n
                /\ \A k \in 1..n : Count(new, old[k]) = Count(old, old[k])
                /\ (call'.arg = "up" /\ i = 1) => new = old
                /\ (call'.arg = "down" /\ i = n) => new = old
                /\ (call'.arg = "up" /\ i > 1) => new = Swap(old, i - 1, i)
                /\ (call'.arg = "down" /\ i > 0 /\ i < n) => new = Swap(old, i, i + 1)
       /\ \A id \in StageIds(state'.stages) :
             findIndex(state'.stages, id) > 1 =>
                 moveStageOrder(moveStageOrder(state'.stages, id, "up"), id, "down")
                     = state'.stages]_vars

\* The first stage went to the end by two moves down.
C18_Witness ==
    /\ call.op = "moveStage" /\ call.arg = "down"
    /\ call.id = <<"gain", 0>>
    /\ Len(state.stages) = 3
    /\ state.stages[3].id = <<"gain", 0>>
    /\ state.stages[1].id = <<"pan", 0>>

\* C19: setStageBypass(id, b) with an id of state.stages changes the bypassed
\* flag of that stage to b and nothing else of the canonical state.
C19_SetStageBypassFrame ==
    [][(call'.op = "setStageBypass" /\ call'.id \in StageIds(state.stages)) =>
          LET i == findIndex(state.stages, call'.id)
          IN /\ state'.stages[i].bypassed = (call'.arg = "true")
             /\ state' = [state EXCEPT !.stages[i].bypassed = state'.stages[i].bypassed]]_vars

\* A stage was put in the chain while another one stays bypassed.
C19_Witness ==
    /\ ctx /\ SourceExists
    /\ call.op = "setStageBypass" /\ call.arg = "false"
    /\ call.id \in StageIds(state.stages)
    /\ ~state.stages[findIndex(state.stages, call.id)].bypassed
    /\ \E i \in 1..Len(state.stages) : state.stages[i].bypassed

\* C20: setStageParams(id, partial) with an id of state.stages gives each key
\* of partial its value in the params of that stage, keeps the other keys,
\* and changes nothing else of the canonical state.
C20_SetStageParamsMerge ==
    [][(call'.op = "setStageParams" /\ call'.id \in StageIds(state.stages)) =>
          LET i == findIndex(state.stages, call'.id)
              old == state.stages[i].params
              new == state'.stages[i].params
              partial == call'.params
          IN /\ DOMAIN new = DOMAIN old \cup DOMAIN partial
             /\ \A k \in DOMAIN partial : new[k] = partial[k]
             /\ \A k \in DOMAIN old \ DOMAIN partial : new[k] = old[k]
             /\ state' = [state EXCEPT !.stages[i].params = new]]_vars

\* The wet level of the delay was set; its time and feedback are the defaults.
C20_Witness ==
    /\ ctx /\ SourceExists
    /\ call.op = "setStageParams" /\ call.id = <<"delay", 0>>
    /\ LET i == findIndex(state.stages, call.id)
       IN state.stages[i].params = [time |-> 40, wet |-> 30, feedback |-> 40]

\* The live values of an instance are the params clamped to the schema.
LiveIsClamped(stage, inst) ==
    /\ \A k \in DOMAIN ParamMin(stage.kind) :
          inst.live[k] = clamp(stage.params[k], ParamMin(stage.kind)[k],
                               ParamMax(stage.kind)[k])
    /\ stage.kind = "delay" => inst.live.dry = 100 - inst.live.wet

\* C21: after a rebuild with a source, for every stage and every parameter of
\* its schema the live value of the instance is the state's value clamped to
\* [min, max]; the same setStageParams issued twice leaves the live values
\* and the state of the first.
C21_ParamClamping ==
    [][/\ (ctx' /\ SourceExists') =>
             \A i \in 1..Len(state'.stages) :
                 /\ state'.stages[i].id \in DOMAIN stageInstances'
                 /\ LiveIsClamped(state'.stages[i],
                                  stageInstances'[state'.stages[i].id])
       /\ (/\ call.op = "setStageParams" /\ call'.op = "setStageParams"
           /\ call'.id = call.id
           /\ DOMAIN call'.params = DOMAIN call.params
           /\ \A k \in DOMAIN call.params : call'.params[k] = call.params[k])
             => (stageInstances' = stageInstances /\ state' = state)]_vars

\* The instances were created by init from params set out of range before.
C21_Witness ==
    /\ call.op = "init" /\ SourceExists
    /\ state.stages[1].params.gain = 250
    /\ stageInstances[<<"gain", 0>>].live.gain = 200
    /\ state.stages[3].params.feedback = 99
    /\ stageInstances[<<"delay", 0>>].live.feedback = 95

\* C22: in every reachable state state.oscillator.frequency lies in
\* [20, 2000], whatever values were passed to setFrequency.
C22_FrequencyClamped ==
    state.oscillator.frequency >= 20 /\ state.oscillator.frequency <= 2000

\* C27: a rebuild run again on a state the engine is in leaves the
\* connections, the instance table with its live values, the creation and
\* disposal counts, the source nodes and state.source as they are.
C27_RebuildIdempotent ==
    LET r == rebuildSignalChain(Engine)
    IN /\ r.connections = connections
       /\ r.stageInstances = stageInstances
       /\ r.createCount = createCount
       /\ r.disposeCount = disposeCount
       /\ r.oscillator = oscillator
       /\ r.micSource = micSource
       /\ r.state = state

\* A chain with a stage in the path and a disposed instance behind it.
C27_Witness ==
    /\ ctx /\ SourceExists
    /\ \E i \in 1..Len(state.stages) : ~state.stages[i].bypassed
    /\ \E i \in 1..Len(state.stages) : state.stages[i].bypassed
    /\ \E id \in InitialIds : disposeCount[id] = 1

\* C28: when a command ends with neither an oscillator node nor a capture
\* source node, no connection made by the engine remains (none into
\* masterGain, the analyser or a stage entry), and state.source is the one
\* the command's mutation declared.
C28_NoSourceAbort ==
    [][(oscillator' = 0 /\ micSource' = 0) =>
          /\ BoundaryConnections' = {}
          /\ emits' # <<>> => state'.source = emits'[1].source]_vars

\* C29: after startOscillator, running is true and source is 'oscillator';
\* after init the oscillator node exists, is started, and is the source the
\* chain is fed from.
C29_StartOscillatorPost ==
    call.op = "startOscillator" =>
        /\ state.oscillator.running
        /\ state.source = "oscillator"
        /\ ctx => /\ oscillator # 0
                  /\ oscillator \in oscStarted
                  /\ EffectiveSourceNode = OscNode(oscillator)
                  /\ PathFrom(1, OscNode(oscillator)) \subseteq connections

\* startOscillator while the microphone was the source.
C29_Witness ==
    /\ ctx /\ call.op = "startOscillator"
    /\ call.prevSource = "microphone"
    /\ micSource # 0
    /\ state.source = "oscillator"

\* The capture source nodes that exist: the engine's and those in the graph.
CaptureNodes ==
    {n \in Endpoints(connections) : n.role = "micSource"}
        \cup (IF micSource # 0 THEN {MicNode(micSource)} ELSE {})

\* C30: after enableMicrophone succeeded (the acquisition resolved, or a
\* capture source node existed), mic.enabled is true, source is
\* 'microphone', exactly one capture source node exists, and it is the
\* source the chain is fed from.
C30_EnableMicrophonePost ==
    (\/ call.op = "enableMicrophone.resolved"
     \/ call.op = "enableMicrophone" /\ micSource # 0)
        => /\ state.mic.enabled
           /\ state.source = "microphone"
           /\ CaptureNodes = {MicNode(micSource)}
           /\ EffectiveSourceNode = MicNode(micSource)
           /\ PathFrom(1, MicNode(micSource)) \subseteq connections

\* C23: subscribe(handler) calls handler with a snapshot of the current
\* state before it returns, and after every command the last snapshot each
\* subscribed handler received equals the canonical state.
C23_SubscriptionDelivery ==
    \A h \in Subscribed(subscribers) : received[h] = <<cloneState(Engine)>>

C25_EmissionPrecedesGraphChange ==
    [][(call'.op # "init" /\ emits' # <<>>) => ~probe'.late]_vars

\* C26: no command's mutation begins while another command's emission or
\* rebuild is in progress.
C26_NoReentrancy == ~probe.nested

\* C31: in every state the keys of every stage's params are the parameter
\* keys of the schema of its kind; setStageParams with another key does not
\* add that key.
C31_ParamsShape ==
    \A i \in 1..Len(state.stages) :
        DOMAIN state.stages[i].params = DOMAIN ParamMin(state.stages[i].kind)

\* C32: for every live delay instance the dry gain is 1 - the wet gain, and
\* once it was updated the wet gain is the given wet clamped to [0, 1], the
\* delay time is the given time clamped to [0, 2] and the feedback gain is
\* the given feedback clamped to [0, 0.95], hence below 1.
C32_DelayMixConsistency ==
    \A id \in DOMAIN stageInstances :
        LET inst == stageInstances[id]
            p == inst.lastUpdate
        IN inst.kind = "delay" =>
              /\ inst.live.dry = 100 - inst.live.wet
              /\ inst.updated =>
                    /\ Has(p, "wet") => inst.live.wet = clamp(p.wet, 0, 100)
                    /\ Has(p, "time") => inst.live.time = clamp(p.time, 0, 200)
                    /\ Has(p, "feedback") =>
                          inst.live.feedback = clamp(p.feedback, 0, 95)
                    /\ inst.live.feedback < 100

\* A live delay was given wet, time and feedback above their ranges.
C32_Witness ==
    /\ <<"delay", 0>> \in DOMAIN stageInstances
    /\ LET inst == stageInstances[<<"delay", 0>>]
       IN /\ inst.updated
          /\ inst.lastUpdate.wet = 130 /\ inst.live.wet = 100 /\ inst.live.dry = 0
          /\ inst.lastUpdate.time = 250 /\ inst.live.time = 200
          /\ inst.lastUpdate.feedback = 99 /\ inst.live.feedback = 95

\* C33: when the WASM call throws while a block is processed, process()
\* still returns true and the channel's output is the unmodified input.
C33_WorkletFaultPassthrough ==
    worklet.block.threw =>
        worklet.block.result = "true" /\ worklet.block.output = "input"

\* C38: once initWasm has completed, the gain given to the WASM processor
\* is the value of the last setGain message received, or the constructor's
\* gain when none was; until then every block is passed through unchanged.
C38_GainNotLost ==
    /\ worklet.completed => worklet.wasmGain = <<worklet.lastSet>>
    /\ (~worklet.completed /\ worklet.block.result # "none") =>
          worklet.block.result = "true" /\ worklet.block.output = "input"

\* setGain arrived both before and after initWasm completed.
C38_Witness ==
    /\ worklet.kind = "wasm-gain"
    /\ worklet.completed
    /\ worklet.awaiting > 0
    /\ worklet.lastSet = 150
    /\ worklet.wasmGain = <<150>>
    /\ worklet.block.output = "processed"

\* The commands of the engine that a caller issues.
Commands ==
    {"startOscillator", "stopOscillator", "setFrequency", "setType",
     "enableMicrophone", "disableMicrophone", "setSource", "setStageBypass",
     "setStageParams", "addStage", "removeStage", "moveStage"}

NoGraph ==
    /\ oscillator = 0 /\ micSource = 0 /\ micStream = 0
    /\ DOMAIN stageInstances = {}
    /\ connections = {}
    /\ \A id \in AllIds : createCount[id] = 0

GraphInLine ==
    /\ oscillator # 0 <=> state.oscillator.running
    /\ SourceExists =>
          /\ StageIds(state.stages) = DOMAIN stageInstances
          /\ BoundaryConnections = PathFrom(1, EffectiveSourceNode)

\* C34: before init() every command that succeeds emits the state it leaves
\* and no node, instance or connection exists; the rebuild of init() brings
\* the graph in line with the state accumulated until then.
C34_CommandsBeforeInit ==
    [][/\ ~ctx' =>
             /\ NoGraph'
             /\ (call'.op \in Commands /\ call'.ok) =>
                   /\ emits' # <<>>
                   /\ lastSnapshot' = <<cloneState(Engine)'>>
       /\ call'.op = "init" => GraphInLine']_vars

\* C35: also when enableMicrophone calls overlap and both acquisitions
\* resolve, the only capture source node with an outgoing connection is the
\* engine's current micSource.
C35_NoStaleCaptureNode ==
    \A c \in connections :
        c[1].role = "micSource" => (micSource # 0 /\ c[1] = MicNode(micSource))

\* C36: whenever setSource(kind) returns true, state.source is kind when the
\* command completes and the last snapshot it emitted carries source = kind.
C36_SetSourceSuccess ==
    [][(call'.op = "setSource" /\ call'.ok)
          => /\ state'.source = call'.arg
             /\ emits' # <<>>
             /\ emits'[Len(emits')].source = call'.arg]_vars

\* C37: within one emission every subscriber is given the snapshot as the
\* engine produced it, whatever the handlers called before it wrote to the
\* snapshot they were given.
C37_IndependentSnapshots ==
    [][(call'.op \in Commands /\ Len(emits') = 1)
          => \A h \in Subscribed(subscribers') : received'[h] = <<emits'[1]>>]_vars

====
